---- MODULE Spec2Model ----
(***************************************************************************)
(* Model of datetools.py: date_now, convert_date, get_midnight,            *)
(* next_midnight, last_midnight and delta_as_text.                         *)
(*                                                                         *)
(* Time is counted in whole hours from the start of day 0.  A datetime is  *)
(* what Python stores: a wall-clock reading plus the attached tzinfo and   *)
(* the UTC offset that tzinfo carries.  Python strings are tuples of       *)
(* one-character strings, so that str.lower() and the "in" operator are    *)
(* computed character by character.                                        *)
(***************************************************************************)
EXTENDS Integers, Sequences, FiniteSets, TLC

VARIABLES current_tz, op, args, ret, aux

vars == <<current_tz, op, args, ret, aux>>

----------------------------------------------------------------------------
(* Bounds of the model *)

MaxDay == 3
MaxOffset == 1
MaxSel == 2
MaxCount == 1

----------------------------------------------------------------------------
(* Python values *)

HoursPerDay == 24

PyStr(s) == [t |-> "str", v |-> s]
PyFalse == [t |-> "bool", v |-> <<"F","a","l","s","e">>]
PyTrue == [t |-> "bool", v |-> <<"T","r","u","e">>]
PyNone == [t |-> "none", v |-> <<"N","o","n","e">>]
PyOne == [t |-> "int", v |-> <<"1">>]
PyZone(name) == [t |-> "zone", v |-> name]
Raise(e) == [t |-> "raise", exc |-> e]

UpperLetters == <<"A","B","C","D","E","F","G","H","I","J","K","L","M",
                  "N","O","P","Q","R","S","T","U","V","W","X","Y","Z">>
LowerLetters == <<"a","b","c","d","e","f","g","h","i","j","k","l","m",
                  "n","o","p","q","r","s","t","u","v","w","x","y","z">>

LowerChar(c) ==
    IF \E i \in DOMAIN UpperLetters : UpperLetters[i] = c
    THEN LowerLetters[CHOOSE i \in DOMAIN UpperLetters : UpperLetters[i] = c]
    ELSE c

Lower(s) == [i \in DOMAIN s |-> LowerChar(s[i])]

Str(p) == p.v

Truthy(p) ==
    CASE p.t = "bool" -> p = PyTrue
      [] p.t = "none" -> FALSE
      [] p.t = "str" -> Len(p.v) > 0
      [] OTHER -> TRUE

----------------------------------------------------------------------------
(* Zones: the zone provider (django.utils.timezone over pytz) *)

utc == <<"U","T","C">>
EstZone == <<"E","S","T">>
DstZone == <<"D","s","t">>
Zones == {utc, EstZone, DstZone}

DstStart == HoursPerDay + 1
DstEnd == (2 * HoursPerDay) + 1

utcoffset(z, u) ==
    CASE z = utc -> 0
      [] z = EstZone -> 0 - 5
      [] z = DstZone -> IF DstStart <= u /\ u < DstEnd THEN 2 ELSE 1

ZoneOffsets(z) ==
    CASE z = utc -> {0}
      [] z = EstZone -> {0 - 5}
      [] z = DstZone -> {1, 2}

Naive(c) == [t |-> "dt", clock |-> c, tz |-> <<>>, off |-> 0]
Aware(u, z) == [t |-> "dt", clock |-> u + utcoffset(z, u), tz |-> z,
                off |-> utcoffset(z, u)]
Instant(d) == d.clock - d.off

is_naive(value) == value.tz = <<>>

\* faulty variant: the zone is swapped on the reading instead of converting it
localtime_replace(value, timezone) ==
    IF timezone.t # "zone" THEN Raise("TypeError")
    ELSE [t |-> "dt", clock |-> value.clock, tz |-> timezone.v,
          off |-> utcoffset(timezone.v, value.clock)]

localtime(value, timezone) ==
    IF timezone.t # "zone" THEN Raise("TypeError")
    ELSE Aware(Instant(value), timezone.v)

\* faulty variant: the value comes back without a zone
make_aware_unchanged(value, timezone) ==
    IF timezone.t # "zone" THEN Raise("AttributeError") ELSE value

make_aware(value, timezone) ==
    IF timezone.t # "zone" THEN Raise("AttributeError")
    ELSE LET fits == {o \in ZoneOffsets(timezone.v) :
                         utcoffset(timezone.v, value.clock - o) = o}
         IN  IF fits = {} THEN Raise("NonExistentTimeError")
             ELSE IF Cardinality(fits) > 1 THEN Raise("AmbiguousTimeError")
             ELSE [t |-> "dt", clock |-> value.clock, tz |-> timezone.v,
                   off |-> CHOOSE o \in fits : TRUE]

get_current_timezone == PyZone(current_tz)

----------------------------------------------------------------------------
(* date_now *)

ISO8601_DATE_FORMAT == <<"%","Y","-","%","m","-","%","d","T","%","H",":",
                         "%","M",":","%","S","%","z">>

strftime(now, format) == [t |-> "text", fmt |-> format, of |-> now]

date_now_target(local_tz) ==
    IF Lower(Str(local_tz)) = <<"l","o","c","a","l">>
       \/ local_tz \in {PyTrue, PyOne, PyStr(<<"t","r","u","e">>)}
    THEN get_current_timezone
    ELSE local_tz

date_now(utcnow, local_tz0, format, tz) ==
    LET now0 == Aware(utcnow, utc)
        local_tz == IF ~Truthy(local_tz0) /\ tz # PyNone THEN tz ELSE local_tz0
        now1 == IF Truthy(local_tz) /\ Str(local_tz) \notin {<<"u","t","c">>, utc}
                THEN IF is_naive(now0)
                     THEN make_aware(now0, date_now_target(local_tz))
                     ELSE localtime(now0, date_now_target(local_tz))
                ELSE now0
    IN  IF now1.t = "raise" THEN now1
        ELSE IF Truthy(format)
        THEN strftime(now1, IF Lower(Str(format)) \in {<<"i","s","o">>,
                                     <<"i","s","o","8","6","0","1">>}
                            THEN ISO8601_DATE_FORMAT ELSE Str(format))
        ELSE now1

----------------------------------------------------------------------------
(* convert_date *)

GoodAware == <<"0","2","T","0","3","Z">>
GoodNaive == <<"0","2","T","0","2">>
Nonsense == <<"n","o","n","s","e","n","s","e">>

\* The fuzzy parser: the outcomes parse(datestr, fuzzy=True, default=None)
\* can have for a string.
parse(datestr) ==
    CASE datestr = GoodAware -> {Aware(HoursPerDay + 3, utc)}
      [] datestr = GoodNaive -> {Naive(HoursPerDay + 2)}
      [] OTHER -> {PyNone, Raise("KeyError"), Raise("ValueError")}

convert_date_tz(tz) ==
    IF ~Truthy(tz) \/ tz = PyStr(<<"l","o","c","a","l">>)
    THEN get_current_timezone
    ELSE IF Lower(Str(tz)) = <<"u","t","c">> THEN PyZone(utc)
    ELSE tz

\* parsed is the parser's outcome for datestr when datestr is a string
convert_date(datestr, tz, parsed) ==
    LET datecon == IF datestr.t = "dt" THEN datestr ELSE parsed
    IN  IF datecon.t = "raise"
        THEN IF datecon.exc = "KeyError" THEN PyFalse ELSE datecon
        ELSE IF Truthy(datecon)
        THEN IF is_naive(datecon)
             THEN make_aware(datecon, convert_date_tz(tz))
             ELSE localtime(datecon, convert_date_tz(tz))
        ELSE PyFalse

----------------------------------------------------------------------------
(* get_midnight, next_midnight, last_midnight *)

LocalDate(d) == d.clock \div HoursPerDay

\* dt.astimezone(current_tz) followed by current_tz.normalize(...): the set
\* of possible outcomes.  On a naive dt the interpreter either refuses
\* (ValueError) or reads dt in the system zone, whichever that is.
astimezone(dt, timezone) ==
    IF is_naive(dt)
    THEN {Raise("ValueError")}
         \cup {Aware(dt.clock - o, timezone.v) :
                   o \in UNION {ZoneOffsets(z) : z \in Zones}}
    ELSE {Aware(Instant(dt), timezone.v)}

\* datetime.combine(local + timedelta(days=offset), time(0, 0, 0))
combine(local, offset) == Naive((LocalDate(local) + offset) * HoursPerDay)

\* faulty variant: whole days of 24 hours are added to the instant of the midnight
\* of dt's own date
get_midnight_fixed_hours(dt, offset) ==
    {IF local.t = "raise" THEN local
     ELSE LET m == make_aware(combine(local, 0), get_current_timezone)
          IN  IF m.t = "raise" THEN m
              ELSE Aware(Instant(m) + (offset * HoursPerDay), current_tz) :
         local \in astimezone(dt, get_current_timezone)}

\* the set of possible outcomes (one outcome when dt is aware)
get_midnight(dt, offset) ==
    {IF local.t = "raise" THEN local
     ELSE make_aware(combine(local, offset), get_current_timezone) :
         local \in astimezone(dt, get_current_timezone)}

next_midnight(dt) == get_midnight(dt, 1)
last_midnight(dt) == get_midnight(dt, 0)

----------------------------------------------------------------------------
(* delta_as_text *)
(* The clock of the model counts whole hours and has no calendar of months *)
(* and years: the answer of the calendar-delta calculator for two          *)
(* datetimes is an input of the call, not computed from them.              *)

Units == <<"years", "months", "days", "hours", "minutes">>

ZeroDelta == [t |-> "relativedelta", years |-> 0, months |-> 0, days |-> 0,
              hours |-> 0, minutes |-> 0]

\* relativedelta(dt2, dt1): answer is what the calendar-delta calculator
\* computes for two datetimes; with an operand that is not truthy dateutil
\* takes its keyword branch and returns the delta of zeros.
relativedelta(dt2, dt1, answer) ==
    IF Truthy(dt2) /\ Truthy(dt1)
    THEN IF is_naive(dt2) # is_naive(dt1) THEN Raise("TypeError") ELSE answer
    ELSE ZeroDelta

In(c, include) == \E i \in DOMAIN include : include[i] = c

do_years(include) == In("Y", include) \/ In("y", include)
\* faulty variant: the alias B is forgotten
do_months_no_B(include) == In("m", include) \/ In("b", include)

do_months(include) == In("m", include) \/ In("b", include) \/ In("B", include)
do_days(include) == In("d", include) \/ In("D", include)
do_hours(include) == In("H", include) \/ In("h", include)
do_minutes(include) == In("M", include) \/ In("i", include) \/ In("I", include)

do_unit(u, include) ==
    CASE u = "years" -> do_years(include)
      [] u = "months" -> do_months(include)
      [] u = "days" -> do_days(include)
      [] u = "hours" -> do_hours(include)
      [] u = "minutes" -> do_minutes(include)

\* ungettext under the source-language catalogue
_PSTAT(singular, plural, n) == IF n = 1 THEN singular ELSE plural

\* template % {"count": n} for a template "%(count)d<rest>"
Subst(rest, n) == ToString(n) \o rest

Singular(u) ==
    CASE u = "years" -> " year"
      [] u = "months" -> " month"
      [] u = "days" -> " day"
      [] u = "hours" -> " hour"
      [] u = "minutes" -> " minute"

Plural(u) == Singular(u) \o "s"

time_unit(u, delta) == Subst(_PSTAT(Singular(u), Plural(u), delta[u]), delta[u])

\* faulty variant: include_zeros is not consulted
keep_unit_nonzero(u, include, include_zeros, delta) ==
    do_unit(u, include) /\ delta[u] # 0

keep_unit(u, include, include_zeros, delta) ==
    do_unit(u, include) /\ (include_zeros \/ delta[u] # 0)

RECURSIVE build_from(_, _, _, _)
build_from(i, include, include_zeros, delta) ==
    IF i > Len(Units) THEN <<>>
    ELSE (IF keep_unit(Units[i], include, include_zeros, delta)
          THEN <<time_unit(Units[i], delta)>> ELSE <<>>)
         \o build_from(i + 1, include, include_zeros, delta)

\* faulty variant: the fragments are built while scanning the selector's letters
RECURSIVE build_by_letters(_, _, _)
build_by_letters(include, include_zeros, delta) ==
    IF include = <<>> THEN <<>>
    ELSE LET hit == {i \in DOMAIN Units : do_unit(Units[i], <<Head(include)>>)}
         IN  (IF hit # {} /\ (include_zeros
                              \/ delta[Units[CHOOSE i \in hit : TRUE]] # 0)
              THEN <<time_unit(Units[CHOOSE i \in hit : TRUE], delta)>>
              ELSE <<>>)
             \o build_by_letters(Tail(include), include_zeros, delta)

build_out_desc(include, include_zeros, delta) ==
    build_from(1, include, include_zeros, delta)

RECURSIVE join(_, _)
join(sep, out_desc) ==
    IF out_desc = <<>> THEN ""
    ELSE IF Len(out_desc) = 1 THEN out_desc[1]
    ELSE out_desc[1] \o sep \o join(sep, Tail(out_desc))

\* p1, p2: the parser's outcomes for dt1 and dt2; utcnow: the clock reading
\* date_now takes; answer: the calendar-delta calculator's answer
delta_as_text(dt1, dt2, tz1, tz2, include, include_zeros, p1, p2, utcnow, answer) ==
    LET c1 == convert_date(dt1, tz1, p1)
        c2 == IF Truthy(dt2) THEN convert_date(dt2, tz2, p2)
              ELSE date_now(utcnow, tz2, PyNone, PyNone)
        delta == relativedelta(c2, c1, answer)
    IN  IF c1.t = "raise"
        THEN [ret |-> c1, dt1 |-> c1, dt2 |-> PyNone, delta |-> PyNone,
              out_desc |-> <<>>]
        ELSE IF c2.t = "raise"
        THEN [ret |-> c2, dt1 |-> c1, dt2 |-> c2, delta |-> PyNone,
              out_desc |-> <<>>]
        ELSE IF delta.t = "raise"
        THEN [ret |-> delta, dt1 |-> c1, dt2 |-> c2, delta |-> delta,
              out_desc |-> <<>>]
        ELSE LET out_desc == build_out_desc(include, include_zeros, delta)
             IN  [ret |-> [t |-> "unicode", v |-> join(", ", out_desc)],
                  dt1 |-> c1, dt2 |-> c2, delta |-> delta,
                  out_desc |-> out_desc]

----------------------------------------------------------------------------
(* Inputs *)

Instants == 0 .. (MaxDay * HoursPerDay) - 1
NowReadings == {u \in Instants : u % HoursPerDay \in {0, 1, 12}}
AwareStamps == {Aware(u, z) : u \in Instants, z \in Zones}
NaiveStamps == {Naive(c) : c \in Instants}
DateStrings == {PyStr(GoodAware), PyStr(GoodNaive), PyStr(<<>>), PyStr(Nonsense)}

ZoneHandles == {PyZone(z) : z \in Zones}
TzStrings == {PyStr(<<"l","o","c","a","l">>), PyStr(<<"L","O","C","A","L">>),
              PyStr(<<"u","t","c">>), PyStr(<<"U","T","C">>),
              PyStr(<<"U","t","c">>), PyStr(<<"t","r","u","e">>)}
TzSpecs == {PyFalse, PyTrue, PyOne, PyNone} \cup TzStrings \cup ZoneHandles
Formats == {PyNone, PyStr(<<"I","S","O">>), PyStr(<<"%","H">>)}

SelectorLetters == {"Y","y","m","b","B","d","D","H","h","M","i","I","x"}
Selectors == UNION {[1 .. n -> SelectorLetters] : n \in 0 .. MaxSel}
DefaultInclude == <<"Y","m","d","H","M">>

Subsets5 == [{"years", "months", "days", "hours", "minutes"} -> BOOLEAN]
Answers ==
    {ZeroDelta} \cup
    {[t |-> "relativedelta",
      years |-> IF f["years"] THEN c ELSE 0,
      months |-> IF f["months"] THEN c ELSE 0,
      days |-> IF f["days"] THEN c ELSE 0,
      hours |-> IF f["hours"] THEN c ELSE 0,
      minutes |-> IF f["minutes"] THEN c ELSE 0] :
         f \in Subsets5, c \in 1 .. MaxCount}

NotCalled == [t |-> "notcalled"]
Unresolved == [t |-> "unresolved"]

\* lines 115-118 run only under "if datecon:"
TargetResolved(datestr, parsed) == datestr.t = "dt" \/ parsed.t = "dt"
ParserOutcomes(value) == IF value.t = "str" THEN parse(value.v) ELSE {NotCalled}

----------------------------------------------------------------------------
(* The state machine: the process is idle, one operation is called and     *)
(* returns, and its record is cleared again.                               *)

Init ==
    /\ current_tz \in Zones
    /\ op = "idle"
    /\ args = <<>>
    /\ ret = PyNone
    /\ aux = <<>>

DateNowCall ==
    /\ op = "idle"
    /\ \E utcnow \in NowReadings, local_tz \in TzSpecs \ {PyNone},
          format \in Formats,
          tz \in {PyNone, PyStr(<<"l","o","c","a","l">>),
                  PyStr(<<"u","t","c">>), PyZone(DstZone)} :
         /\ op' = "date_now"
         /\ args' = [utcnow |-> utcnow, local_tz |-> local_tz,
                     format |-> format, tz |-> tz]
         /\ ret' = date_now(utcnow, local_tz, format, tz)
         /\ aux' = <<>>
    /\ UNCHANGED current_tz

ConvertDateCall ==
    /\ op = "idle"
    /\ \E datestr \in AwareStamps \cup NaiveStamps \cup DateStrings,
          tz \in TzSpecs :
         \E parsed \in ParserOutcomes(datestr) :
             /\ op' = "convert_date"
             /\ args' = [datestr |-> datestr, tz |-> tz]
             /\ ret' = convert_date(datestr, tz, parsed)
             /\ aux' = [parsed |-> parsed,
                        tz |-> IF TargetResolved(datestr, parsed)
                               THEN convert_date_tz(tz) ELSE Unresolved]
    /\ UNCHANGED current_tz

GetMidnightCall ==
    /\ op = "idle"
    /\ \E dt \in AwareStamps \cup NaiveStamps,
          offset \in (0 - MaxOffset) .. MaxOffset :
         \E r \in get_midnight(dt, offset) :
             /\ op' = "get_midnight"
             /\ args' = [dt |-> dt, offset |-> offset]
             /\ ret' = r
             /\ aux' = [steps |-> 0]
    /\ UNCHANGED current_tz

\* next_midnight applied to the midnight just returned
NextMidnightAgain ==
    /\ op = "get_midnight"
    /\ ret.t = "dt"
    /\ aux.steps < MaxDay
    /\ \E r \in next_midnight(ret) :
         /\ args' = [dt |-> ret, offset |-> 1]
         /\ ret' = r
         /\ aux' = [steps |-> aux.steps + 1]
    /\ UNCHANGED <<current_tz, op>>

DeltaAsText(dt1s, dt2s, tzs, includes, answers, readings) ==
    /\ op = "idle"
    /\ \E dt1 \in dt1s, dt2 \in dt2s, tz1 \in tzs, tz2 \in tzs,
          include \in includes, include_zeros \in BOOLEAN,
          utcnow \in readings, answer \in answers :
         \E p1 \in ParserOutcomes(dt1),
            p2 \in IF Truthy(dt2) THEN ParserOutcomes(dt2) ELSE {NotCalled} :
             \E r \in {delta_as_text(dt1, dt2, tz1, tz2, include,
                                      include_zeros, p1, p2, utcnow, answer)} :
                 /\ op' = "delta_as_text"
                 /\ args' = [dt1 |-> dt1, dt2 |-> dt2, tz1 |-> tz1,
                             tz2 |-> tz2, include |-> include,
                             include_zeros |-> include_zeros]
                 /\ ret' = r.ret
                 /\ aux' = [dt1 |-> r.dt1, dt2 |-> r.dt2,
                            out_desc |-> r.out_desc, p1 |-> p1, p2 |-> p2,
                            delta |-> r.delta]
    /\ UNCHANGED current_tz

SampleAnswer == [t |-> "relativedelta", years |-> 0, months |-> 3,
                 days |-> 11, hours |-> 20, minutes |-> 51]

DeltaAsTextCall ==
    DeltaAsText({Aware(5, utc), Naive(HoursPerDay + 6)} \cup DateStrings,
                {PyNone, Aware(2 * HoursPerDay, DstZone)} \cup DateStrings,
                {PyStr(<<"u","t","c">>), PyStr(<<"l","o","c","a","l">>)},
                {DefaultInclude}, {ZeroDelta, SampleAnswer}, {0, DstStart})

FormatCall ==
    DeltaAsText({Aware(0, utc)}, {Aware(HoursPerDay, utc)},
                {PyStr(<<"u","t","c">>)}, Selectors, Answers, {0})

Return ==
    /\ op # "idle"
    /\ op' = "idle"
    /\ args' = <<>>
    /\ ret' = PyNone
    /\ aux' = <<>>
    /\ UNCHANGED current_tz

Next ==
    \/ DateNowCall
    \/ ConvertDateCall
    \/ GetMidnightCall
    \/ NextMidnightAgain
    \/ DeltaAsTextCall
    \/ Return

Spec == Init /\ [][Next]_vars

InitFormat == Init /\ current_tz = utc

NextFormat ==
    \/ FormatCall
    \/ Return

SpecFormat == InitFormat /\ [][NextFormat]_vars

----------------------------------------------------------------------------
(* Vocabulary of the properties *)

UnitSet == {Units[i] : i \in DOMAIN Units}

AliasGroup(u) ==
    CASE u = "years" -> {"Y", "y"}
      [] u = "months" -> {"m", "b", "B"}
      [] u = "days" -> {"d", "D"}
      [] u = "hours" -> {"H", "h"}
      [] u = "minutes" -> {"M", "i", "I"}

InGroup(u, include) == \E i \in DOMAIN include : include[i] \in AliasGroup(u)

\* every text a fragment of unit u can have for the counts of the model
UnitFragments(u) ==
    {ToString(n) \o Singular(u) : n \in 0 .. MaxCount + 1}
    \cup {ToString(n) \o Plural(u) : n \in 0 .. MaxCount + 1}

\* the place of each fragment text's unit in the fixed order
FragmentRank ==
    [fragment \in UNION {UnitFragments(u) : u \in UnitSet} |->
        CHOOSE i \in DOMAIN Units : fragment \in UnitFragments(Units[i])]

Rank(fragment) ==
    IF fragment \in DOMAIN FragmentRank THEN FragmentRank[fragment] ELSE 0

HasFragment(u, out_desc) ==
    \E i \in DOMAIN out_desc :
        Rank(out_desc[i]) > 0 /\ Units[Rank(out_desc[i])] = u

RECURSIVE TotalLen(_)
TotalLen(out_desc) ==
    IF out_desc = <<>> THEN 0
    ELSE Len(out_desc[1]) + TotalLen(Tail(out_desc))

Rendered == op = "delta_as_text" /\ ret.t = "unicode"

Unparseable(p) ==
    p.t = "str" /\ \A o \in parse(p.v) : o.t # "dt"

\* TimezoneResolver of the specification
TimezoneResolver(spec) ==
    IF ~Truthy(spec) \/ Lower(Str(spec)) = <<"l","o","c","a","l">>
       \/ spec \in {PyTrue, PyOne, PyStr(<<"t","r","u","e">>)}
    THEN get_current_timezone
    ELSE IF Lower(Str(spec)) = <<"u","t","c">> THEN PyZone(utc)
    ELSE spec

\* the value convert_date works on: the datetime given, or the parser's
ValueOf == IF args.datestr.t = "dt" THEN args.datestr ELSE aux.parsed

WellFormed(d) ==
    /\ d.tz \in Zones
    /\ d.off = utcoffset(d.tz, Instant(d))

----------------------------------------------------------------------------
(* C1 *)

\* C1: a delta_as_text call in which dt1 or dt2 is a string that cannot be
\* normalized ends in the ParseFailure outcome and never returns a string.
C1_UnparseableNeverRenders ==
    (op = "delta_as_text" /\ (Unparseable(args.dt1) \/ Unparseable(args.dt2)))
        => ret.t # "unicode" /\ (ret = PyFalse \/ ret.t = "raise")

----------------------------------------------------------------------------
(* C2 *)

\* C2: for a string input, however the parser fails (no value, or any
\* error raised), convert_date returns False and no error propagates.
C2_ParserFailureIsFalse ==
    (op = "convert_date" /\ args.datestr.t = "str" /\ aux.parsed.t # "dt")
        => ret = PyFalse

----------------------------------------------------------------------------
(* C3 *)

\* C3: date_now without a zone argument and without a format returns the
\* captured instant expressed in the process's current zone; with "utc" it
\* returns it with zero UTC offset.
C3_NowInCurrentZone ==
    (op = "date_now" /\ ~Truthy(args.format) /\ args.tz = PyNone)
        => /\ args.local_tz = PyFalse
              => /\ ret.t = "dt"
                 /\ Instant(ret) = args.utcnow
                 /\ ret.tz = current_tz
                 /\ ret.off = utcoffset(current_tz, args.utcnow)
           /\ args.local_tz = PyStr(<<"u","t","c">>)
              => /\ ret.t = "dt"
                 /\ Instant(ret) = args.utcnow
                 /\ ret.off = 0

----------------------------------------------------------------------------
(* C4 *)

\* C4: the target zone convert_date uses is the TimezoneResolver result for
\* tz: the current zone for absent, falsy, true-like or "local" in any
\* case, UTC for "utc" in any case, tz itself otherwise.
C4_TargetIsResolverResult ==
    (op = "convert_date" /\ aux.tz # Unresolved)
        => aux.tz = TimezoneResolver(args.tz)

----------------------------------------------------------------------------
(* C5 *)

----------------------------------------------------------------------------
(* C6 *)

\* C6: in the rendered output a fragment of unit u is present exactly when
\* u is selected and (include_zeros or the delta's value of u is nonzero);
\* the output is the empty string exactly when no unit is selected or every
\* selected unit is zero with include_zeros off.
C6_ZeroSuppression ==
    (Rendered /\ aux.dt1.t = "dt" /\ aux.dt2.t = "dt") =>
        /\ \A u \in UnitSet :
              HasFragment(u, aux.out_desc)
                  <=> (InGroup(u, args.include)
                       /\ (args.include_zeros \/ aux.delta[u] # 0))
        /\ ret.v = ""
              <=> \/ \A u \in UnitSet : ~InGroup(u, args.include)
                  \/ /\ ~args.include_zeros
                     /\ \A u \in UnitSet :
                           InGroup(u, args.include) => aux.delta[u] = 0

\* a selected zero unit was suppressed while a selected nonzero one was kept
C6_Witness ==
    /\ Rendered
    /\ ~args.include_zeros
    /\ InGroup("years", args.include) /\ aux.delta["years"] = 0
    /\ InGroup("days", args.include) /\ aux.delta["days"] # 0
    /\ ~HasFragment("years", aux.out_desc)
    /\ HasFragment("days", aux.out_desc)

----------------------------------------------------------------------------
(* C7 *)

ZeroFragment(fragment) ==
    \E i \in DOMAIN Units : fragment = "0" \o Plural(Units[i])

KeptWithoutZeros(fragment) == ~ZeroFragment(fragment)

----------------------------------------------------------------------------
(* C8 *)

SelectedInOutput == {u \in UnitSet : HasFragment(u, aux.out_desc)}

\* str.lower() on every letter but M
FoldButM(include) ==
    [i \in DOMAIN include |->
        IF include[i] = "M" THEN "M" ELSE LowerChar(include[i])]

KnownLetter(c) == \E u \in UnitSet : c \in AliasGroup(u)

\* C8 as stated: the units are selected by the alias groups, selector
\* strings that differ only in letter case select the same units, and
\* letters outside the groups select nothing.
C8_CaseInsensitive ==
    (Rendered /\ args.include_zeros) =>
        /\ SelectedInOutput = {u \in UnitSet : InGroup(u, args.include)}
        /\ SelectedInOutput = {u \in UnitSet : do_unit(u, Lower(args.include))}
        /\ SelectedInOutput =
              {u \in UnitSet : InGroup(u, SelectSeq(args.include, KnownLetter))}

\* C8 amended: the units are selected by the alias groups by exact letter
\* (m is months, M is minutes); selector strings that differ only in the
\* case of letters other than m and M select the same units; letters
\* outside the groups select nothing.
C8_AliasGroups ==
    (Rendered /\ args.include_zeros) =>
        /\ SelectedInOutput = {u \in UnitSet : InGroup(u, args.include)}
        /\ SelectedInOutput =
              {u \in UnitSet : do_unit(u, FoldButM(args.include))}
        /\ SelectedInOutput =
              {u \in UnitSet : InGroup(u, SelectSeq(args.include, KnownLetter))}

\* an upper-case alias next to an unknown letter selected months alone
C8_Witness ==
    /\ Rendered
    /\ args.include_zeros
    /\ args.include = <<"B", "x">>
    /\ SelectedInOutput = {"months"}

----------------------------------------------------------------------------
(* C9 *)

----------------------------------------------------------------------------
(* C10 *)

\* C10: every datetime returned by date_now, convert_date and get_midnight,
\* and every datetime delta_as_text hands to the calendar-delta calculator,
\* is timezone-aware.
C10_AlwaysAware ==
    /\ (op \in {"date_now", "convert_date", "get_midnight"} /\ ret.t = "dt")
          => ~is_naive(ret) /\ WellFormed(ret)
    /\ (op = "delta_as_text" /\ aux.delta.t = "relativedelta") =>
          /\ aux.dt1.t = "dt" => ~is_naive(aux.dt1) /\ WellFormed(aux.dt1)
          /\ aux.dt2.t = "dt" => ~is_naive(aux.dt2) /\ WellFormed(aux.dt2)

\* a naive datetime went in and an aware one came out
C10_Witness ==
    /\ op = "convert_date"
    /\ args.datestr.t = "dt"
    /\ is_naive(args.datestr)
    /\ ret.t = "dt"
    /\ ~is_naive(ret)

====
